---- MODULE Spec2Model ----
(***************************************************************************)
(* Hospital pharmacy inventory management: the three batch pipelines       *)
(*   script1_global_stock.py      create_global_stock_lookup               *)
(*   script2_main_store_stock.py  create_main_store_stock_lookup           *)
(*   script4_inventory_calc.py    InventoryCalculator                      *)
(* Tables are sequences of records, files are records holding a table.     *)
(* Quantities are integers; a raw cell is <<"num", n>>, <<"str", 0>> (text  *)
(* that does not parse as a number) or <<"nan", 0>> (a missing cell).      *)
(***************************************************************************)
EXTENDS Integers, Sequences, FiniteSets, TLC

VARIABLES
    script,      \* the pipeline that runs: "script1", "script2" or "script4"
    pc,          \* position of the running pipeline
    error,       \* the exception the run ended with, "" while there is none
    log,         \* messages handed to log_fn, in order
    input_file,  \* the aggregator's input file
    df,          \* the aggregator's working table
    input_total, \* script 2: total quantity of the cleaned table
    result,      \* the aggregator's result table
    output_file, \* the file the pipeline exports
    master_file,          \* script 4: MASTER_DATA_INPUT
    global_stock_file,    \* script 4: the Global Stock Lookup it reads
    main_store_file,      \* script 4: the Main Store Stock Lookup it reads
    expected_items_file,  \* script 4: the pending purchase-order feed
    clock,                \* script 4: the wall clock, in days
    data,                 \* script 4: InventoryCalculator.data
    log_fn_fails_at,  \* the call of log_fn that raises, counted from 1; 0 if none does
    worker,           \* position of the thread run_in_thread starts, "none" without one
    caught,           \* the exception the worker's except clause holds
    on_done_calls,    \* the arguments on_done was invoked with, in order
    on_done_raises    \* the invocations of on_done that raise, counted from 1

agg_vars == <<input_file, df, input_total, result>>

calc_files == <<master_file, global_stock_file, main_store_file, expected_items_file, clock>>

calc_vars == <<master_file, global_stock_file, main_store_file, expected_items_file,
               clock, data>>

\* what the caller of a pipeline supplies and observes
caller_vars == <<log_fn_fails_at, worker, caught, on_done_calls, on_done_raises>>

vars == <<script, pc, error, log, input_file, df, input_total, result, output_file,
          master_file, global_stock_file, main_store_file, expected_items_file,
          clock, data, log_fn_fails_at, worker, caught, on_done_calls, on_done_raises>>

----------------------------------------------------------------------------
(* Bounds of the model *)

MaxStockRows == 3

----------------------------------------------------------------------------
(* Cells *)

NA == "<NA>"
NaN == <<"nan", 0>>
Str == <<"str", 0>>
Num(n) == <<"num", n>>

\* Series.notna() on a text column and on a quantity column
notna(cell) == cell # NA

qty_notna(cell) == cell[1] # "nan"

IsNum(cell) == cell[1] = "num"

\* str.strip() != "" for the descriptions of the model
strip(s) == IF s = "  " THEN "" ELSE s

\* A file: whether it exists, whether it holds the sheet the reader asks for,
\* whether that sheet has the required columns, and the sheet's rows
NoFile == [exists |-> FALSE, sheet_ok |-> FALSE, columns_ok |-> FALSE, rows |-> <<>>]
File(rows) == [exists |-> TRUE, sheet_ok |-> TRUE, columns_ok |-> TRUE, rows |-> rows]
BadColumnsFile == [exists |-> TRUE, sheet_ok |-> TRUE, columns_ok |-> FALSE, rows |-> <<>>]
NoSheetFile == [exists |-> TRUE, sheet_ok |-> FALSE, columns_ok |-> FALSE, rows |-> <<>>]

\* the order of the item codes of the model under sort_values
CodeOrder == <<"A1", "A2", "Intransit Store">>

CodeRank(c) == CHOOSE i \in 1..Len(CodeOrder) : CodeOrder[i] = c

----------------------------------------------------------------------------
(* Table helpers *)

RECURSIVE SumQty(_, _)
SumQty(rows, col) ==
    IF rows = <<>> THEN 0
    ELSE rows[1][col][2] + SumQty(Tail(rows), col)

RECURSIVE SumInt(_, _)
SumInt(rows, col) ==
    IF rows = <<>> THEN 0
    ELSE rows[1][col] + SumInt(Tail(rows), col)

Keys(rows, key) == {rows[i][key] : i \in 1..Len(rows)} \ {NA}

RECURSIVE SortedCodes(_)
SortedCodes(S) ==
    IF S = {} THEN <<>>
    ELSE LET m == CHOOSE c \in S : \A d \in S : CodeRank(c) <= CodeRank(d)
         IN <<m>> \o SortedCodes(S \ {m})

GroupTotal(rows, key, col, k) ==
    SumQty(SelectSeq(rows, LAMBDA r : r[key] = k), col)

Fail(e) == pc' = "failed" /\ error' = e

\* log_fn raises within the calls that hand over msgs
log_fn_raises(msgs) ==
    log_fn_fails_at > Len(log) /\ log_fn_fails_at <= Len(log) + Len(msgs)

\* how many of the calls of a step returned before the one that raised
Delivered == log_fn_fails_at - Len(log) - 1

\* A step hands msgs to log_fn one call at a time and goes on with `then`.
\* No pipeline catches what log_fn raises: the exception ends the run, the
\* messages before it are delivered and `interrupted` is the state the step
\* had reached at the call that raised.
Report(msgs, then, interrupted) ==
    IF log_fn_raises(msgs)
    THEN /\ log' = log \o SubSeq(msgs, 1, Delivered)
         /\ Fail("ReportingError")
         /\ interrupted
    ELSE /\ log' = log \o msgs
         /\ then

----------------------------------------------------------------------------
(* Script 1: create_global_stock_lookup *)

\* Filter 1 without the blank test: only a missing Description is rejected
HasDescription_no_blank_test(r) == notna(r.Description)

\* Filter 1: rows whose Description is present and not blank
HasDescription(r) == notna(r.Description) /\ strip(r.Description) # ""

\* Filter 2: rows whose Qty is present
HasQty(r) == qty_notna(r.Qty)

\* pd.to_numeric(errors="coerce") on the Qty column
to_numeric(cell) == IF IsNum(cell) THEN cell ELSE NaN

CoerceQty(rows) == [i \in 1..Len(rows) |-> [rows[i] EXCEPT !.Qty = to_numeric(@)]]

\* a grouping that emits one row per input row instead of one per key
GlobalGroupBy_per_row(rows) ==
    LET kept == SelectSeq(rows, LAMBDA r : notna(r.ItemCode))
    IN [i \in 1..Len(kept) |->
           [Item_Code |-> kept[i].ItemCode, Total_Global_Stock |-> kept[i].Qty[2]]]

\* df.groupby("ItemCode")["Qty"].sum().reset_index(): one row per item code
\* present (a missing key forms no group), keys ascending
GlobalGroupBy(rows) ==
    LET ks == SortedCodes(Keys(rows, "ItemCode"))
    IN [i \in 1..Len(ks) |->
           [Item_Code |-> ks[i],
            Total_Global_Stock |-> GroupTotal(rows, "ItemCode", "Qty", ks[i])]]

RECURSIVE SortByCode(_, _)
\* sort_values(key): a stable insertion of each row after the rows not greater
SortByCode(rows, key) ==
    IF rows = <<>> THEN <<>>
    ELSE LET rest == SortByCode(Tail(rows), key)
             r == rows[1]
             lo == SelectSeq(rest, LAMBDA x : CodeRank(x[key]) < CodeRank(r[key]))
             hi == SelectSeq(rest, LAMBDA x : CodeRank(x[key]) >= CodeRank(r[key]))
         IN lo \o <<r>> \o hi

is_unique(rows, key) ==
    \A i, j \in 1..Len(rows) : rows[i][key] = rows[j][key] => i = j

GS_Load ==
    /\ pc = "gs_load"
    /\ IF ~input_file.exists
       THEN /\ Fail("FileNotFoundError")
            /\ UNCHANGED <<log, df>>
       ELSE Report(<<<<"loading", 0>>, <<"loaded", Len(input_file.rows)>>>>,
                   IF ~input_file.columns_ok
                   THEN Fail("ValueError: missing columns") /\ UNCHANGED df
                   ELSE IF Len(input_file.rows) = 0
                   THEN Fail("ValueError: empty") /\ UNCHANGED df
                   ELSE /\ df' = input_file.rows
                        /\ pc' = "gs_clean"
                        /\ UNCHANGED error,
                   UNCHANGED df)
    /\ UNCHANGED <<script, caller_vars, input_file, input_total, result, output_file, calc_vars>>

\* df and result are locals of the function: a run that ends inside a step
\* leaves them as the step found them
GS_Clean ==
    /\ pc = "gs_clean"
    /\ LET d1 == SelectSeq(df, HasDescription)
           d2 == SelectSeq(d1, HasQty)
           d3 == SelectSeq(CoerceQty(d2), HasQty)
           removed == Len(d2) - Len(d3)
       IN Report(<<<<"cleaning", 0>>,
                   <<"removed_blank_description", Len(df) - Len(d1)>>,
                   <<"removed_blank_qty", Len(d1) - Len(d2)>>>>
                 \o (IF removed # 0
                     THEN <<<<"removed_non_numeric", removed>>>> ELSE <<>>),
                 /\ df' = d3
                 /\ IF Len(d3) = 0
                    THEN Fail("ValueError: all rows filtered")
                    ELSE pc' = "gs_aggregate" /\ UNCHANGED error,
                 UNCHANGED df)
    /\ UNCHANGED <<script, caller_vars, input_file, input_total, result, output_file, calc_vars>>

GS_Aggregate ==
    /\ pc = "gs_aggregate"
    /\ LET grouped == SortByCode(GlobalGroupBy(df), "Item_Code")
       IN Report(<<<<"aggregating", 0>>, <<"unique_items", Len(grouped)>>>>,
                 /\ result' = grouped
                 /\ pc' = "gs_validate"
                 /\ UNCHANGED error,
                 UNCHANGED result)
    /\ UNCHANGED <<script, caller_vars, input_file, df, input_total, output_file, calc_vars>>

GS_Validate ==
    /\ pc = "gs_validate"
    /\ IF /\ \A i \in 1..Len(result) : result[i].Item_Code # "Intransit Store"
          /\ is_unique(result, "Item_Code")
          /\ \A i \in 1..Len(result) : result[i].Total_Global_Stock >= 0
       THEN pc' = "gs_export" /\ UNCHANGED error
       ELSE Fail("AssertionError")
    /\ UNCHANGED <<script, caller_vars, log, input_file, df, input_total, result, output_file, calc_vars>>

\* to_excel runs after the first message and before the others
GS_Export ==
    /\ pc = "gs_export"
    /\ Report(<<<<"exporting", 0>>,
                <<"separator", 0>>, <<"complete", 0>>, <<"separator", 0>>,
                <<"complete_unique_items", Len(result)>>,
                <<"complete_total", SumInt(result, "Total_Global_Stock")>>,
                <<"complete_output_file", 0>>, <<"separator", 0>>>>,
              /\ output_file' = File(result)
              /\ pc' = "done"
              /\ UNCHANGED error,
              output_file' = IF Delivered >= 1 THEN File(result) ELSE output_file)
    /\ UNCHANGED <<script, caller_vars, input_file, df, input_total, result, calc_vars>>

create_global_stock_lookup ==
    \/ GS_Load
    \/ GS_Clean
    \/ GS_Aggregate
    \/ GS_Validate
    \/ GS_Export

StockCodes == {"A1", "A2"}
StockDescriptions == {"Widget", ""}
StockQtys == {NaN, Num(5), Num(10)}

\* the rows a stock report can hold: the regular rows and the irregular ones
RawStockRecord ==
    [ItemCode : StockCodes, Description : StockDescriptions, Qty : StockQtys]
    \cup {[ItemCode |-> "A2", Description |-> "", Qty |-> Num(3)],
          [ItemCode |-> "A1", Description |-> "Widget", Qty |-> Num(-5)],
          [ItemCode |-> "A1", Description |-> "Widget", Qty |-> Str],
          [ItemCode |-> "A1", Description |-> "  ", Qty |-> Num(5)],
          [ItemCode |-> "A1", Description |-> NA, Qty |-> Num(5)],
          [ItemCode |-> NA, Description |-> "Widget", Qty |-> Num(5)],
          [ItemCode |-> "Intransit Store", Description |-> "Widget", Qty |-> Num(5)]}

RECURSIVE SeqsUpTo(_, _)
SeqsUpTo(S, n) ==
    IF n = 0 THEN {<<>>}
    ELSE LET shorter == SeqsUpTo(S, n - 1)
         IN shorter \cup {Append(s, x) : s \in shorter, x \in S}

\* a pipeline called directly, as under __main__, with a log_fn that never raises
DirectCall ==
    /\ log_fn_fails_at = 0
    /\ worker = "none"
    /\ caught = ""
    /\ on_done_calls = <<>>
    /\ on_done_raises = {}

InitGlobal ==
    /\ script = "script1"
    /\ pc = "gs_load"
    /\ error = ""
    /\ log = <<>>
    /\ input_file \in {NoFile, BadColumnsFile}
                      \cup {File(rows) : rows \in SeqsUpTo(RawStockRecord, MaxStockRows)}
    /\ df = <<>>
    /\ input_total = 0
    /\ result = <<>>
    /\ output_file = NoFile
    /\ master_file = NoFile
    /\ global_stock_file = NoFile
    /\ main_store_file = NoFile
    /\ expected_items_file = NoFile
    /\ clock = 0
    /\ data = <<>>
    /\ DirectCall

SpecGlobal == InitGlobal /\ [][create_global_stock_lookup]_vars

----------------------------------------------------------------------------
(* Script 2: create_main_store_stock_lookup *)

MaxBatchRows == 3

MAIN_STORE == "Main Medical Store (MMS)-SEPL"

\* a store test that accepts every store
InMainStore_any_store(r) == TRUE

InMainStore(r) == r.Store_Name = MAIN_STORE

\* a store filter that keeps every row
StoreFilter_keep_all(rows) == rows

\* df[df["Store Name"] == MAIN_STORE]
StoreFilter(rows) == SelectSeq(rows, InMainStore)

HasItemAndQty(r) == notna(r.Item_n_Code) /\ qty_notna(r.Qty)

\* df.groupby(ITEM_COL)[QTY_COL].sum().reset_index(), keys ascending
MainStoreGroupBy(rows) ==
    LET ks == SortedCodes(Keys(rows, "Item_n_Code"))
    IN [i \in 1..Len(ks) |->
           [Item_n_Code |-> ks[i],
            Sum_of_Qty |-> GroupTotal(rows, "Item_n_Code", "Qty", ks[i])]]

\* abs(input_total - output_total) < 0.01, on whole quantities
ConservationOk(in_total, out_total) == in_total = out_total

MS_Load ==
    /\ pc = "ms_load"
    /\ IF ~input_file.exists
       THEN Fail("FileNotFoundError") /\ UNCHANGED <<log, df>>
       ELSE IF ~input_file.sheet_ok
       THEN Report(<<<<"loading", 0>>>>,
                   Fail("ValueError: no RAW DATA sheet") /\ UNCHANGED df,
                   UNCHANGED df)
       ELSE IF ~input_file.columns_ok
       THEN Report(<<<<"loading", 0>>, <<"loaded", Len(input_file.rows)>>,
                     <<"available_columns", 0>>>>,
                   Fail("ValueError: missing columns") /\ UNCHANGED df,
                   UNCHANGED df)
       ELSE Report(<<<<"loading", 0>>, <<"loaded", Len(input_file.rows)>>>>,
                   IF Len(input_file.rows) = 0
                   THEN Fail("ValueError: empty") /\ UNCHANGED df
                   ELSE /\ df' = input_file.rows
                        /\ pc' = "ms_quality"
                        /\ UNCHANGED error,
                   UNCHANGED df)
    /\ UNCHANGED <<script, caller_vars, input_file, input_total, result, output_file, calc_vars>>

MS_Quality ==
    /\ pc = "ms_quality"
    /\ LET main_rows == Len(SelectSeq(df, InMainStore))
           d1 == IF main_rows # Len(df) THEN StoreFilter(df) ELSE df
           missing_items == Len(SelectSeq(d1, LAMBDA r : ~notna(r.Item_n_Code)))
           missing_qty == Len(SelectSeq(d1, LAMBDA r : ~qty_notna(r.Qty)))
           d2 == IF missing_items > 0 \/ missing_qty > 0
                 THEN SelectSeq(d1, HasItemAndQty) ELSE d1
           d3 == SelectSeq(CoerceQty(d2), HasQty)
       IN Report(<<<<"verifying", 0>>, <<"main_store_rows", main_rows>>>>
                 \o (IF main_rows # Len(df)
                     THEN <<<<"other_store_rows", Len(df) - main_rows>>>>
                     ELSE <<>>)
                 \o <<<<"missing_item_codes", missing_items>>,
                      <<"missing_quantities", missing_qty>>>>
                 \o (IF missing_items > 0 \/ missing_qty > 0
                     THEN <<<<"removing_missing", 0>>>> ELSE <<>>),
                 /\ df' = d3
                 /\ pc' = "ms_aggregate"
                 /\ UNCHANGED error,
                 UNCHANGED df)
    /\ UNCHANGED <<script, caller_vars, input_file, input_total, result, output_file, calc_vars>>

MS_Aggregate ==
    /\ pc = "ms_aggregate"
    /\ LET grouped == SortByCode(MainStoreGroupBy(df), "Item_n_Code")
       IN Report(<<<<"aggregating", 0>>, <<"unique_items", Len(grouped)>>>>,
                 /\ input_total' = SumQty(df, "Qty")
                 /\ result' = grouped
                 /\ pc' = "ms_validate"
                 /\ UNCHANGED error,
                 UNCHANGED <<input_total, result>>)
    /\ UNCHANGED <<script, caller_vars, input_file, df, output_file, calc_vars>>

MS_Validate ==
    /\ pc = "ms_validate"
    /\ LET output_total == SumInt(result, "Sum_of_Qty")
       IN IF /\ is_unique(result, "Item_n_Code")
             /\ \A i \in 1..Len(result) : result[i].Sum_of_Qty >= 0
             /\ ConservationOk(input_total, output_total)
          THEN Report(<<<<"conservation", output_total>>>>,
                      pc' = "ms_export" /\ UNCHANGED error,
                      TRUE)
          ELSE Fail("AssertionError") /\ UNCHANGED log
    /\ UNCHANGED <<script, caller_vars, input_file, df, input_total, result, output_file, calc_vars>>

\* to_excel runs after the first message and before the others
MS_Export ==
    /\ pc = "ms_export"
    /\ Report(<<<<"exporting", 0>>,
                <<"separator", 0>>, <<"complete", 0>>, <<"separator", 0>>,
                <<"complete_input_batches", Len(df)>>,
                <<"complete_unique_items", Len(result)>>,
                <<"complete_total", SumInt(result, "Sum_of_Qty")>>,
                <<"complete_output_file", 0>>, <<"separator", 0>>>>,
              /\ output_file' = File(result)
              /\ pc' = "done"
              /\ UNCHANGED error,
              output_file' = IF Delivered >= 1 THEN File(result) ELSE output_file)
    /\ UNCHANGED <<script, caller_vars, input_file, df, input_total, result, calc_vars>>

create_main_store_stock_lookup ==
    \/ MS_Load
    \/ MS_Quality
    \/ MS_Aggregate
    \/ MS_Validate
    \/ MS_Export

BatchStores == {MAIN_STORE, "Ward Store"}
BatchQtys == {NaN, Str, Num(7), Num(-2)}

\* the rows a batch report can hold
RawBatchRecord ==
    [Item_n_Code : StockCodes, Store_Name : BatchStores, Qty : BatchQtys]
    \cup {[Item_n_Code |-> NA, Store_Name |-> MAIN_STORE, Qty |-> Num(7)],
          [Item_n_Code |-> "A1", Store_Name |-> NA, Qty |-> Num(7)]}

InitMain ==
    /\ script = "script2"
    /\ pc = "ms_load"
    /\ error = ""
    /\ log = <<>>
    /\ input_file \in {NoFile, NoSheetFile, BadColumnsFile}
                      \cup {File(rows) : rows \in SeqsUpTo(RawBatchRecord, MaxBatchRows)}
    /\ df = <<>>
    /\ input_total = 0
    /\ result = <<>>
    /\ output_file = NoFile
    /\ master_file = NoFile
    /\ global_stock_file = NoFile
    /\ main_store_file = NoFile
    /\ expected_items_file = NoFile
    /\ clock = 0
    /\ data = <<>>
    /\ DirectCall

SpecMain == InitMain /\ [][create_main_store_stock_lookup]_vars

\* either aggregator, each on its own input
InitAggregators == InitGlobal \/ InitMain

NextAggregators == create_global_stock_lookup \/ create_main_store_stock_lookup

SpecAggregators == InitAggregators /\ [][NextAggregators]_vars

----------------------------------------------------------------------------
(* Script 4: InventoryCalculator *)

MaxMasterRows == 1
MaxPOLines == 2

NaT == <<"nat", 0>>
Date(d) == <<"date", d>>

\* df[df["Current SKU (TRUE/FALSE)"] == True]
IsActive(r) == r.Current_SKU = TRUE

\* an inner join: the left rows without a match are dropped
LeftJoin_inner(left, right, rkey, rcol, newcol) ==
    LET kept == SelectSeq(left, LAMBDA l : \E j \in 1..Len(right) :
                                             right[j][rkey] = l.Item_n_Code)
    IN [i \in 1..Len(kept) |->
           (newcol :> right[CHOOSE j \in 1..Len(right) :
                               right[j][rkey] = kept[i].Item_n_Code][rcol]) @@ kept[i]]

RECURSIVE LeftJoin(_, _, _, _, _)
\* left.merge(right, left_on=ITEM_COL, right_on=rkey, how="left") followed by
\* fillna(0) of the joined column and the drop of the right-hand columns: every
\* left row once per matching right row, in the left order; 0 where none matches
LeftJoin(left, right, rkey, rcol, newcol) ==
    IF left = <<>> THEN <<>>
    ELSE LET l == left[1]
             matches == SelectSeq(right, LAMBDA r : r[rkey] = l.Item_n_Code)
             joined == IF matches = <<>>
                       THEN <<(newcol :> 0) @@ l>>
                       ELSE [i \in 1..Len(matches) |-> (newcol :> matches[i][rcol]) @@ l]
         IN joined \o LeftJoin(Tail(left), right, rkey, rcol, newcol)

CountPositive(rows, col) == Len(SelectSeq(rows, LAMBDA r : r[col] > 0))

\* pd.to_datetime(errors="coerce")
to_datetime(cell) == IF cell[1] = "date" THEN cell ELSE NaT

DAYS_WINDOW == 90

\* a window test that leaves out the line created exactly 90 days before the run
InWindow_strict(date, three_months_ago) ==
    date[1] = "date" /\ date[2] > three_months_ago

\* expected["POCreated Date"] >= three_months_ago; NaT compares false
InWindow(date, three_months_ago) ==
    date[1] = "date" /\ date[2] >= three_months_ago

\* expected.groupby("Item Code")["Pen.Qty"].sum().reset_index()
PendingGroupBy(rows) ==
    LET ks == SortedCodes(Keys(rows, "Item_Code"))
    IN [i \in 1..Len(ks) |->
           [Item_Code |-> ks[i],
            Pending_PO |-> SumInt(SelectSeq(rows, LAMBDA r : r.Item_Code = ks[i]),
                                  "Pen_Qty")]]

\* round(a / b, 0) for b > 0: the nearest whole number, a tie to the even one
round(a, b) ==
    LET q == a \div b
        r == a % b
    IN IF 2 * r < b THEN q
       ELSE IF 2 * r > b THEN q + 1
       ELSE IF q % 2 = 0 THEN q ELSE q + 1

\* math.ceil(a / b) for b > 0
ceil(a, b) == -((-a) \div b)

max(a, b) == IF a >= b THEN a ELSE b

\* a net stock that also counts the main store
NetStock_with_main_store(r) == r.Global_stock + r.Pending_PO + r.Main_Store_Stock

\* Column R
NetStock(r) == r.Global_stock + r.Pending_PO

\* a day count that falls back to the stock itself when ADC is not positive
StockDays_unguarded(stock, adc) == IF adc > 0 THEN round(stock, adc) ELSE stock

\* Columns S and T
StockDays(stock, adc) == IF adc > 0 THEN round(stock, adc) ELSE 0

\* a reorder test that also fires at the minimum
ReorderNeeded_at_minimum(r) == (r.Current_SKU = TRUE) /\ (r.Net_Stock <= r.Min_Stock_Level)

\* Column U
ReorderNeeded(r) == (r.Current_SKU = TRUE) /\ (r.Net_Stock < r.Min_Stock_Level)

\* an order quantity that is the bare shortage, not rounded up to whole packs
calc_order_qty_no_rounding(row) ==
    IF ~row.Current_SKU \/ ~row.Reorder_Needed THEN 0
    ELSE LET shortage == row.Max_Stock_Level - row.Net_Stock
             pack == row.Pack_size
         IN IF pack <= 0 \/ shortage <= 0 THEN 0 ELSE max(0, shortage)

\* an order quantity that orders although no reorder is needed
calc_order_qty_ignores_flag(row) ==
    LET shortage == row.Max_Stock_Level - row.Net_Stock
        pack == row.Pack_size
    IN IF pack <= 0 \/ shortage <= 0 THEN 0 ELSE max(0, ceil(shortage, pack) * pack)

\* Column V
calc_order_qty(row) ==
    IF ~row.Current_SKU \/ ~row.Reorder_Needed THEN 0
    ELSE LET shortage == row.Max_Stock_Level - row.Net_Stock
             pack == row.Pack_size
         IN IF pack <= 0 \/ shortage <= 0 THEN 0
            ELSE max(0, ceil(shortage, pack) * pack)

\* the five derived columns of one row, in the order the code assigns them
MetricsRow(r) ==
    LET r1 == ("Net_Stock" :> NetStock(r)) @@ r
        r2 == ("Global_Stock_Days" :> StockDays(r1.Global_stock, r1.ADC)) @@ r1
        r3 == ("Main_Store_Stock_Days" :> StockDays(r2.Main_Store_Stock, r2.ADC)) @@ r2
        r4 == ("Reorder_Needed" :> ReorderNeeded(r3)) @@ r3
    IN ("Order_Qty" :> calc_order_qty(r4)) @@ r4

\* the number of columns validate expects
expected_cols == 22

\* the columns the run adds to those of the master file: three merged columns
\* and five derived ones
ADDED_COLUMNS == 8

ExportBefore(a, b) ==
    \/ a.Reorder_Needed /\ ~b.Reorder_Needed
    \/ a.Reorder_Needed = b.Reorder_Needed /\ a.Order_Qty > b.Order_Qty

RECURSIVE SortForExport(_)
\* sort_values(["Reorder Needed?", "Order Qty"], ascending=[False, False]):
\* a stable sort, ties keep the order of the table
SortForExport(rows) ==
    IF rows = <<>> THEN <<>>
    ELSE LET rest == SortForExport(Tail(rows))
             r == rows[1]
             lo == SelectSeq(rest, LAMBDA x : ExportBefore(x, r))
             hi == SelectSeq(rest, LAMBDA x : ~ExportBefore(x, r))
         IN lo \o <<r>> \o hi

load_master ==
    /\ pc = "load_master"
    /\ IF ~master_file.exists
       THEN Fail("FileNotFoundError") /\ UNCHANGED <<log, data>>
       ELSE IF ~master_file.columns_ok
       THEN Report(<<<<"loading_master", 0>>>>,
                   Fail("KeyError") /\ UNCHANGED data,
                   UNCHANGED data)
       ELSE LET active == SelectSeq(master_file.rows, IsActive)
            IN Report(<<<<"loading_master", 0>>,
                        <<"active_skus", Len(active), Len(master_file.rows)>>>>,
                      /\ data' = active
                      /\ pc' = "merge_global_stock"
                      /\ UNCHANGED error,
                      UNCHANGED data)
    /\ UNCHANGED <<script, caller_vars, agg_vars, output_file, calc_files>>

\* self.data holds the merged table before the second message is handed over
merge_global_stock ==
    /\ pc = "merge_global_stock"
    /\ IF ~global_stock_file.exists
       THEN Fail("FileNotFoundError") /\ UNCHANGED <<log, data>>
       ELSE IF ~global_stock_file.sheet_ok
       THEN Report(<<<<"merging_global", 0>>>>,
                   Fail("ValueError: no sheet") /\ UNCHANGED data,
                   UNCHANGED data)
       ELSE IF ~global_stock_file.columns_ok
       THEN Report(<<<<"merging_global", 0>>>>,
                   Fail("KeyError") /\ UNCHANGED data,
                   UNCHANGED data)
       ELSE LET merged == LeftJoin(data, global_stock_file.rows, "Item_Code",
                                   "Total_Global_Stock", "Global_stock")
            IN Report(<<<<"merging_global", 0>>,
                        <<"items_with_global_stock",
                          CountPositive(merged, "Global_stock")>>>>,
                      /\ data' = merged
                      /\ pc' = "merge_main_store_stock"
                      /\ UNCHANGED error,
                      data' = IF Delivered >= 1 THEN merged ELSE data)
    /\ UNCHANGED <<script, caller_vars, agg_vars, output_file, calc_files>>

merge_main_store_stock ==
    /\ pc = "merge_main_store_stock"
    /\ IF ~main_store_file.exists
       THEN Fail("FileNotFoundError") /\ UNCHANGED <<log, data>>
       ELSE IF ~main_store_file.sheet_ok
       THEN Report(<<<<"merging_main_store", 0>>>>,
                   Fail("ValueError: no sheet") /\ UNCHANGED data,
                   UNCHANGED data)
       ELSE IF ~main_store_file.columns_ok
       THEN Report(<<<<"merging_main_store", 0>>>>,
                   Fail("KeyError") /\ UNCHANGED data,
                   UNCHANGED data)
       ELSE LET merged == LeftJoin(data, main_store_file.rows, "Item_n_Code",
                                   "Sum_of_Qty", "Main_Store_Stock")
            IN Report(<<<<"merging_main_store", 0>>,
                        <<"items_with_main_store_stock",
                          CountPositive(merged, "Main_Store_Stock")>>>>,
                      /\ data' = merged
                      /\ pc' = "process_pending_po"
                      /\ UNCHANGED error,
                      data' = IF Delivered >= 1 THEN merged ELSE data)
    /\ UNCHANGED <<script, caller_vars, agg_vars, output_file, calc_files>>

process_pending_po ==
    /\ pc = "process_pending_po"
    /\ IF ~expected_items_file.exists
       THEN Fail("FileNotFoundError") /\ UNCHANGED <<log, data>>
       ELSE IF ~expected_items_file.columns_ok
       THEN Report(<<<<"processing_po", 0>>,
                     <<"po_lines", Len(expected_items_file.rows)>>>>,
                   Fail("KeyError") /\ UNCHANGED data,
                   UNCHANGED data)
       ELSE LET parsed == [i \in 1..Len(expected_items_file.rows) |->
                             [expected_items_file.rows[i]
                                 EXCEPT !.POCreated_Date = to_datetime(@)]]
                three_months_ago == clock - DAYS_WINDOW
                in_store == SelectSeq(parsed, LAMBDA r : r.Store_Name = MAIN_STORE)
                recent == SelectSeq(in_store,
                                    LAMBDA r : InWindow(r.POCreated_Date, three_months_ago))
                pending == PendingGroupBy(recent)
                merged == LeftJoin(data, pending, "Item_Code", "Pending_PO", "Pending_PO")
            IN Report(<<<<"processing_po", 0>>,
                        <<"po_lines", Len(expected_items_file.rows)>>,
                        <<"po_lines_after_filter", Len(recent)>>,
                        <<"items_with_pending", CountPositive(merged, "Pending_PO")>>>>,
                      /\ data' = merged
                      /\ pc' = "calculate_metrics"
                      /\ UNCHANGED error,
                      data' = IF Delivered >= 3 THEN merged ELSE data)
    /\ UNCHANGED <<script, caller_vars, agg_vars, output_file, calc_files>>

\* On an empty table DataFrame.apply(axis=1) returns a table, not a column, and
\* the assignment of it to one column raises or not with the pandas at hand.
calculate_metrics ==
    /\ pc = "calculate_metrics"
    /\ Report(<<<<"calculating", 0>>>>,
              \/ /\ data' = [i \in 1..Len(data) |-> MetricsRow(data[i])]
                 /\ pc' = "validate"
                 /\ UNCHANGED error
              \/ /\ data = <<>>
                 /\ Fail("ValueError")
                 /\ UNCHANGED data,
              UNCHANGED data)
    /\ UNCHANGED <<script, caller_vars, agg_vars, output_file, calc_files>>

validate ==
    /\ pc = "validate"
    /\ LET warning == IF master_file.ncols + ADDED_COLUMNS # expected_cols
                      THEN <<<<"column_count_warning", master_file.ncols + ADDED_COLUMNS>>,
                             <<"columns", 0>>>>
                      ELSE <<>>
           net_ok == \A i \in 1..Len(data) :
                        data[i].Net_Stock = data[i].Global_stock + data[i].Pending_PO
           qty_ok == \A i \in 1..Len(data) : data[i].Order_Qty >= 0
       IN IF net_ok /\ qty_ok
          THEN Report(<<<<"validating", 0>>>> \o warning \o <<<<"validated", 0>>>>,
                      pc' = "export" /\ UNCHANGED error,
                      TRUE)
          ELSE Report(<<<<"validating", 0>>>> \o warning,
                      Fail("AssertionError"),
                      TRUE)
    /\ UNCHANGED <<script, caller_vars, agg_vars, output_file, calc_vars>>

\* to_excel writes the sorted table after the first message; the workbook is
\* formatted and saved again before the second
export ==
    /\ pc = "export"
    /\ Report(<<<<"exporting", 0>>, <<"export_complete", 0>>>>,
              /\ output_file' = File(SortForExport(data))
              /\ pc' = "print_summary"
              /\ UNCHANGED error,
              output_file' = IF Delivered >= 1 THEN File(SortForExport(data))
                             ELSE output_file)
    /\ UNCHANGED <<script, caller_vars, agg_vars, calc_vars>>

\* the optional column whose name holds "unit cost"
unit_cost_col == data # <<>> /\ "Unit_Cost" \in DOMAIN data[1]

RECURSIVE order_value(_)
\* (df["Order Qty"] * df[unit_cost_col]).sum() over numeric unit costs
order_value(rows) ==
    IF rows = <<>> THEN 0
    ELSE rows[1].Order_Qty * rows[1].Unit_Cost[2] + order_value(Tail(rows))

SummaryHead ==
    <<<<"separator", 0>>, <<"summary_title", 0>>, <<"separator", 0>>,
      <<"summary_total_items", Len(data)>>,
      <<"summary_items_needing_reorder",
        Len(SelectSeq(data, LAMBDA r : r.Reorder_Needed))>>,
      <<"summary_total_order_quantity", SumInt(data, "Order_Qty")>>>>

SummaryTail ==
    <<<<"summary_avg_global_stock_days", SumInt(data, "Global_Stock_Days"), Len(data)>>,
      <<"summary_avg_main_store_days", SumInt(data, "Main_Store_Stock_Days"), Len(data)>>,
      <<"separator", 0>>>>

\* A unit cost column that holds text makes the order value unprintable: the
\* product or its sum raises before anything is reported, or the value is a
\* string and formatting it with ",.2f" raises after six lines are reported.
print_summary ==
    /\ pc = "print_summary"
    /\ IF unit_cost_col /\ \E i \in 1..Len(data) : ~IsNum(data[i].Unit_Cost)
       THEN \/ /\ Fail("TypeError")
               /\ UNCHANGED log
            \/ Report(SummaryHead, Fail("ValueError"), TRUE)
       ELSE Report(SummaryHead
                   \o <<<<"summary_order_value",
                           IF unit_cost_col THEN order_value(data) ELSE 0>>>>
                   \o SummaryTail,
                   pc' = "done" /\ UNCHANGED error,
                   TRUE)
    /\ UNCHANGED <<script, caller_vars, agg_vars, output_file, calc_vars>>

\* the table run() returns once print_summary has returned: self.data
run_result == data

run ==
    \/ load_master
    \/ merge_global_stock
    \/ merge_main_store_stock
    \/ process_pending_po
    \/ calculate_metrics
    \/ validate
    \/ export
    \/ print_summary

MasterFile(rows, n) ==
    [exists |-> TRUE, sheet_ok |-> TRUE, columns_ok |-> TRUE, rows |-> rows, ncols |-> n]

\* master rows that vary what the metrics read
MetricRows ==
    [Item_n_Code : {"A1"}, Current_SKU : BOOLEAN, ADC : {-4, 0, 4},
     Min_Stock_Level : {100}, Max_Stock_Level : {60, 500},
     Pack_size : {-30, 0, 30, 40}]

MasterItem(code) ==
    [Item_n_Code |-> code, Current_SKU |-> TRUE, ADC |-> 4,
     Min_Stock_Level |-> 100, Max_Stock_Level |-> 500, Pack_size |-> 30]

POLine(code, store, date, qty) ==
    [Item_Code |-> code, Store_Name |-> store, POCreated_Date |-> date, Pen_Qty |-> qty]

\* the lines a purchase-order feed can hold
PendingPORecord ==
    [Item_Code : StockCodes, Store_Name : BatchStores,
     POCreated_Date : {Str, Date(5), Date(10), Date(11)}, Pen_Qty : {-5, 30}]

GlobalLookup(g) == File(<<[Item_Code |-> "A1", Total_Global_Stock |-> g]>>)

MainStoreLookup(m) == File(<<[Item_n_Code |-> "A1", Sum_of_Qty |-> m]>>)

\* runs that vary the master rows and the stock of item A1
InitMetrics ==
    /\ master_file \in {MasterFile(rows, 14) : rows \in SeqsUpTo(MetricRows, MaxMasterRows)}
    /\ global_stock_file \in {File(<<>>)} \cup {GlobalLookup(g) : g \in {50, 80, 110}}
    /\ main_store_file \in {File(<<>>), MainStoreLookup(7)}
    /\ expected_items_file \in
          {File(<<>>)} \cup {File(<<POLine("A1", MAIN_STORE, Date(90), q)>>) : q \in {-5, 20}}
    /\ clock = 100

\* runs that vary the purchase-order feed and the time of the run
InitPendingPO ==
    /\ master_file = MasterFile(<<MasterItem("A1"), MasterItem("A2")>>, 14)
    /\ global_stock_file = GlobalLookup(50)
    /\ main_store_file = File(<<>>)
    /\ expected_items_file \in
          {File(lines) : lines \in SeqsUpTo(PendingPORecord, MaxPOLines)}
    /\ clock \in {100, 101}

\* runs on a missing or malformed input file
InitBadFiles ==
    /\ \E bad \in {"master", "global", "main", "expected", "none"} :
       \E f \in {NoFile, NoSheetFile, BadColumnsFile} :
          /\ master_file = IF bad = "master" /\ f # NoSheetFile THEN f
                           ELSE MasterFile(<<MasterItem("A1")>>,
                                           IF bad = "none" THEN 13 ELSE 14)
          /\ global_stock_file = IF bad = "global" THEN f ELSE GlobalLookup(50)
          /\ main_store_file = IF bad = "main" THEN f ELSE MainStoreLookup(7)
          /\ expected_items_file = IF bad = "expected" /\ f # NoSheetFile THEN f
                                   ELSE File(<<>>)
    /\ clock = 100

MaxMergeRows == 2

\* master rows that vary what the merges read
MergeRows ==
    {[MasterItem(code) EXCEPT !.Current_SKU = active] :
        code \in StockCodes, active \in BOOLEAN}

\* runs that vary the rows of the master file and the entries of the lookups;
\* one global stock lookup lists an item twice
InitMerge ==
    /\ master_file \in {MasterFile(rows, 14) : rows \in SeqsUpTo(MergeRows, MaxMergeRows)}
    /\ global_stock_file \in
          {File(<<>>), GlobalLookup(50),
           File(<<[Item_Code |-> "A1", Total_Global_Stock |-> 50],
                  [Item_Code |-> "A2", Total_Global_Stock |-> 80]>>),
           File(<<[Item_Code |-> "A1", Total_Global_Stock |-> 50],
                  [Item_Code |-> "A1", Total_Global_Stock |-> 80]>>)}
    /\ main_store_file \in
          {File(<<>>), File(<<[Item_n_Code |-> "A2", Sum_of_Qty |-> 7]>>),
           File(<<[Item_n_Code |-> "A1", Sum_of_Qty |-> 7],
                  [Item_n_Code |-> "A2", Sum_of_Qty |-> 9]>>)}
    /\ expected_items_file \in
          {File(<<>>), File(<<POLine("A2", MAIN_STORE, Date(90), 20)>>),
           File(<<POLine("A1", MAIN_STORE, Date(90), 20),
                  POLine("A1", MAIN_STORE, Date(95), 30)>>)}
    /\ clock = 100

CostedItem(code, cost) == ("Unit_Cost" :> cost) @@ MasterItem(code)

\* runs on a master file that carries a unit cost column
InitSummary ==
    /\ master_file \in {MasterFile(<<CostedItem("A1", c1), CostedItem("A2", c2)>>, 15) :
                           c1, c2 \in {Num(12), Str}}
    /\ global_stock_file \in {File(<<>>), GlobalLookup(50)}
    /\ main_store_file = MainStoreLookup(7)
    /\ expected_items_file = File(<<>>)
    /\ clock = 100

InitCalc ==
    /\ script = "script4"
    /\ pc = "load_master"
    /\ error = ""
    /\ log = <<>>
    /\ input_file = NoFile
    /\ df = <<>>
    /\ input_total = 0
    /\ result = <<>>
    /\ output_file = NoFile
    /\ data = <<>>
    /\ DirectCall
    /\ InitMetrics \/ InitPendingPO \/ InitBadFiles \/ InitSummary \/ InitMerge

SpecCalc == InitCalc /\ [][run]_vars

----------------------------------------------------------------------------
(* Properties of the aggregators *)

\* the rows of the batch report that cleaning keeps: designated store, item
\* code present, quantity parseable
CleanedBatchRows ==
    SelectSeq(input_file.rows,
              LAMBDA r : r.Store_Name = MAIN_STORE /\ r.Item_n_Code # NA
                         /\ r.Qty[1] = "num")

\* the rows of the stock report that survive: Description not blank, Qty numeric
SurvivingStockRows ==
    SelectSeq(input_file.rows,
              LAMBDA r : r.Description \notin {NA, "", "  "} /\ r.Qty[1] = "num")

ForeignRows == SelectSeq(input_file.rows, LAMBDA r : r.Store_Name # MAIN_STORE)

\* C1: Main Store Aggregator conservation. Whenever create_main_store_stock_lookup
\* has exported, the sum of the exported 'Sum of Qty.' values equals the sum of
\* the quantities of the cleaned input rows, and a file is exported only by a
\* run whose input and output totals agree (a run whose totals differ fails
\* and exports nothing).
C1_Conservation ==
    script = "script2" =>
        /\ output_file.exists =>
              /\ SumInt(output_file.rows, "Sum_of_Qty") = SumQty(CleanedBatchRows, "Qty")
              /\ ConservationOk(input_total, SumInt(output_file.rows, "Sum_of_Qty"))
        /\ pc = "done" => output_file.exists
        /\ (pc = "failed" /\ error = "AssertionError") => ~output_file.exists

\* a completed run that dropped rows in cleaning and merged two batches of an item
C1_Witness ==
    /\ script = "script2"
    /\ pc = "done"
    /\ Len(CleanedBatchRows) < Len(input_file.rows)
    /\ Len(output_file.rows) < Len(CleanedBatchRows)
    /\ SumInt(output_file.rows, "Sum_of_Qty") > 0

\* C7: Global Stock Aggregator result. The exported table has exactly one row
\* for each item code that occurs in a surviving input row (non-blank
\* Description, numeric Qty), its total is the sum of Qty over those rows, codes
\* occurring only in rejected rows are absent, and rows ascend by item code.
C7_GlobalResult ==
    (script = "script1" /\ pc = "done") =>
        LET out == output_file.rows
            S == SurvivingStockRows
        IN /\ {out[i].Item_Code : i \in 1..Len(out)} = Keys(S, "ItemCode")
           /\ \A i, j \in 1..Len(out) : out[i].Item_Code = out[j].Item_Code => i = j
           /\ \A i \in 1..Len(out) :
                 out[i].Total_Global_Stock =
                     SumQty(SelectSeq(S, LAMBDA r : r.ItemCode = out[i].Item_Code), "Qty")
           /\ \A i, j \in 1..Len(out) :
                 i < j => CodeRank(out[i].Item_Code) < CodeRank(out[j].Item_Code)

\* scenario 1: [(A1,Widget,10),(A1,Widget,5),(A2,'',3)] gives [(A1,15)]
C7_Witness ==
    /\ script = "script1"
    /\ pc = "done"
    /\ input_file.rows =
          <<[ItemCode |-> "A1", Description |-> "Widget", Qty |-> Num(10)],
            [ItemCode |-> "A1", Description |-> "Widget", Qty |-> Num(5)],
            [ItemCode |-> "A2", Description |-> "", Qty |-> Num(3)]>>
    /\ output_file.rows = <<[Item_Code |-> "A1", Total_Global_Stock |-> 15]>>

OutputKey == IF script = "script1" THEN "Item_Code" ELSE "Item_n_Code"

\* C8: Uniqueness. In both aggregators the grouped result, from the moment it
\* is computed, and the exported table hold each item code at most once.
C8_Uniqueness ==
    script \in {"script1", "script2"} =>
        /\ \A i, j \in 1..Len(result) :
              result[i][OutputKey] = result[j][OutputKey] => i = j
        /\ \A i, j \in 1..Len(output_file.rows) :
              output_file.rows[i][OutputKey] = output_file.rows[j][OutputKey] => i = j

\* a completed global run whose input repeats an item code
C8_Witness ==
    /\ script = "script1"
    /\ pc = "done"
    /\ Len(df) = 3
    /\ Len(output_file.rows) = 2

\* C9: Main Store Aggregator store filter. After the quality step only rows of
\* the designated store remain; the rows of other stores raise no error (a run
\* on a non-empty sheet fails only in validation), add nothing to any item's
\* sum, and the dropped count handed to log_fn is the number of input rows of
\* other stores.
C9_StoreFilter ==
    script = "script2" =>
        /\ pc \in {"ms_aggregate", "ms_validate", "ms_export", "done"} =>
              /\ \A i \in 1..Len(df) : df[i].Store_Name = MAIN_STORE
              /\ \E k \in 1..Len(log) :
                    log[k] = <<"main_store_rows", Len(input_file.rows) - Len(ForeignRows)>>
              /\ Len(ForeignRows) > 0 =>
                    \E k \in 1..Len(log) : log[k] = <<"other_store_rows", Len(ForeignRows)>>
              /\ \A k \in 1..Len(log) :
                    log[k][1] = "other_store_rows" => log[k][2] = Len(ForeignRows)
        /\ (pc = "failed" /\ input_file.rows # <<>>) => error = "AssertionError"
        /\ pc = "done" =>
              \A i \in 1..Len(output_file.rows) :
                 output_file.rows[i].Sum_of_Qty =
                     SumQty(SelectSeq(CleanedBatchRows,
                                      LAMBDA r : r.Item_n_Code = output_file.rows[i].Item_n_Code),
                            "Qty")

\* scenario 2: one row of another store and one matching row of quantity 7
C9_Witness ==
    /\ script = "script2"
    /\ pc = "done"
    /\ Len(input_file.rows) = 2
    /\ Len(ForeignRows) = 1
    /\ ForeignRows[1].Qty = Num(7)
    /\ output_file.rows = <<[Item_n_Code |-> "A1", Sum_of_Qty |-> 7]>>
    /\ \E k \in 1..Len(log) : log[k] = <<"other_store_rows", 1>>

----------------------------------------------------------------------------
(* The three pipelines together: each run is one pipeline on its own inputs *)

Init == InitGlobal \/ InitMain \/ InitCalc

Next == create_global_stock_lookup \/ create_main_store_stock_lookup \/ run

Spec == Init /\ [][Next]_vars

----------------------------------------------------------------------------
(* The pipelines under a caller: a log_fn that may raise, a worker thread *)

\* the calls of log_fn a run can make before the one that raises
MaxLogCalls == 28

\* a few runs of each pipeline, on inputs that let it complete
SmallRuns ==
    /\ error = ""
    /\ log = <<>>
    /\ df = <<>>
    /\ input_total = 0
    /\ result = <<>>
    /\ output_file = NoFile
    /\ data = <<>>
    /\ \/ /\ script = "script1"
          /\ pc = "gs_load"
          /\ input_file \in
                {File(<<[ItemCode |-> "A1", Description |-> "Widget", Qty |-> q]>>) :
                    q \in {Num(5), Str}}
          /\ master_file = NoFile
          /\ global_stock_file = NoFile
          /\ main_store_file = NoFile
          /\ expected_items_file = NoFile
          /\ clock = 0
       \/ /\ script = "script2"
          /\ pc = "ms_load"
          /\ input_file \in
                {File(<<[Item_n_Code |-> "A1", Store_Name |-> st, Qty |-> Num(7)]>>) :
                    st \in BatchStores}
          /\ master_file = NoFile
          /\ global_stock_file = NoFile
          /\ main_store_file = NoFile
          /\ expected_items_file = NoFile
          /\ clock = 0
       \/ /\ script = "script4"
          /\ pc = "load_master"
          /\ input_file = NoFile
          /\ master_file \in {MasterFile(<<MasterItem("A1")>>, n) : n \in {13, 14}}
          /\ global_stock_file = GlobalLookup(50)
          /\ main_store_file = MainStoreLookup(7)
          /\ expected_items_file = File(<<POLine("A1", MAIN_STORE, Date(90), 20)>>)
          /\ clock = 100

\* direct calls with a log_fn that raises on one of its calls
InitReporting ==
    /\ SmallRuns
    /\ log_fn_fails_at \in 1..MaxLogCalls
    /\ worker = "none"
    /\ caught = ""
    /\ on_done_calls = <<>>
    /\ on_done_raises = {}

SpecReporting == InitReporting /\ [][Next]_vars

\* run_in_thread(fn, on_done): the worker thread calls fn, a task that runs
\* one pipeline, inside the try block
worker_fn ==
    /\ worker = "fn"
    /\ Next

\* fn has returned: on_done(None) is called inside the same try block, so an
\* exception it raises is caught by the except clause
worker_on_done_none ==
    /\ worker = "fn"
    /\ pc = "done"
    /\ on_done_calls' = Append(on_done_calls, "None")
    /\ IF Len(on_done_calls) + 1 \in on_done_raises
       THEN worker' = "except" /\ caught' = "on_done error"
       ELSE worker' = "finished" /\ UNCHANGED caught
    /\ UNCHANGED <<script, pc, error, log, agg_vars, output_file, calc_vars,
                   log_fn_fails_at, on_done_raises>>

\* fn has raised: except Exception as e
worker_except ==
    /\ worker = "fn"
    /\ pc = "failed"
    /\ worker' = "except"
    /\ caught' = error
    /\ UNCHANGED <<script, pc, error, log, agg_vars, output_file, calc_vars,
                   log_fn_fails_at, on_done_calls, on_done_raises>>

\* on_done(e) in the except clause; what it raises ends the thread
worker_on_done_error ==
    /\ worker = "except"
    /\ on_done_calls' = Append(on_done_calls, caught)
    /\ worker' = IF Len(on_done_calls) + 1 \in on_done_raises
                 THEN "died" ELSE "finished"
    /\ UNCHANGED <<script, pc, error, log, agg_vars, output_file, calc_vars,
                   log_fn_fails_at, caught, on_done_raises>>

run_in_thread ==
    \/ worker_fn
    \/ worker_on_done_none
    \/ worker_except
    \/ worker_on_done_error

\* tasks started from the tabs: the thread is running, on_done may raise on
\* its first or second invocation, log_fn may raise on its third call
InitThread ==
    /\ SmallRuns
    /\ log_fn_fails_at \in {0, 3}
    /\ worker = "fn"
    /\ caught = ""
    /\ on_done_calls = <<>>
    /\ on_done_raises \in SUBSET {1, 2}

SpecThread == InitThread /\ [][run_in_thread]_vars

----------------------------------------------------------------------------
(* Properties of the Inventory Calculator *)

\* calculate_metrics has completed
MetricsDone ==
    script = "script4" /\ pc \in {"validate", "export", "print_summary", "done"}

\* process_pending_po has completed
PendingDone ==
    script = "script4"
    /\ pc \in {"calculate_metrics", "validate", "export", "print_summary", "done"}

\* C2: Order quantity bounds. After calculate_metrics every row has Order Qty
\* >= 0, a whole multiple of Pack size when Pack size > 0, and 0 when Reorder
\* Needed? is false.
C2_OrderQtyBounds ==
    MetricsDone =>
        \A i \in 1..Len(data) :
           LET r == data[i]
           IN /\ r.Order_Qty >= 0
              /\ r.Pack_size > 0 => r.Order_Qty % r.Pack_size = 0
              /\ ~r.Reorder_Needed => r.Order_Qty = 0

\* a row that needs no reorder although its stock is below the maximum, and
\* so gets no order
C2_Witness ==
    /\ MetricsDone
    /\ \E i \in 1..Len(data) :
          /\ ~data[i].Reorder_Needed
          /\ data[i].Pack_size > 0
          /\ data[i].Max_Stock_Level > data[i].Net_Stock
          /\ data[i].Order_Qty = 0

\* C3: Order quantity value. For an active row with Reorder Needed? true and
\* shortage = Max Stock Level - Net Stock: Order Qty is 0 if Pack size <= 0 or
\* shortage <= 0, and otherwise the smallest multiple of Pack size that is
\* >= shortage; min=100, max=500, net=80 gives 420 with pack=30 and 0 with
\* pack=0.
C3_OrderQtyValue ==
    MetricsDone =>
        \A i \in 1..Len(data) :
           LET r == data[i]
               shortage == r.Max_Stock_Level - r.Net_Stock
           IN (r.Current_SKU /\ r.Reorder_Needed) =>
                 /\ (r.Pack_size <= 0 \/ shortage <= 0) => r.Order_Qty = 0
                 /\ (r.Pack_size > 0 /\ shortage > 0) =>
                       /\ r.Order_Qty % r.Pack_size = 0
                       /\ r.Order_Qty >= shortage
                       /\ r.Order_Qty - shortage < r.Pack_size
                       /\ r.Net_Stock + r.Order_Qty >= r.Max_Stock_Level
                 /\ (r.Min_Stock_Level = 100 /\ r.Max_Stock_Level = 500
                     /\ r.Net_Stock = 80 /\ r.Pack_size = 30) => r.Order_Qty = 420
                 /\ r.Pack_size = 0 => r.Order_Qty = 0

\* a shortage of 420 ordered in packs of 40: 440, more than the shortage
C3_Witness ==
    /\ MetricsDone
    /\ \E i \in 1..Len(data) :
          /\ data[i].Reorder_Needed
          /\ data[i].Net_Stock = 80
          /\ data[i].Max_Stock_Level = 500
          /\ data[i].Pack_size = 40
          /\ data[i].Order_Qty = 440

\* C4: Reorder flag correctness. After calculate_metrics, Reorder Needed? is
\* true exactly when the row is active and Net Stock < Min Stock Level.
C4_ReorderFlag ==
    MetricsDone =>
        \A i \in 1..Len(data) :
           data[i].Reorder_Needed
              <=> (data[i].Current_SKU = TRUE
                   /\ data[i].Net_Stock < data[i].Min_Stock_Level)

\* Net Stock equal to the minimum: no reorder
C4_Witness ==
    /\ MetricsDone
    /\ \E i \in 1..Len(data) :
          /\ data[i].Net_Stock = data[i].Min_Stock_Level
          /\ ~data[i].Reorder_Needed

\* C5: Net stock identity. From calculate_metrics on (validate, export,
\* summary), in the table and in the exported sheet, Net Stock = Global stock +
\* Pending PO; and a row that differs only in its Main Store Stock gets the
\* same Net Stock, Reorder Needed? and Order Qty.
C5_NetStockIdentity ==
    MetricsDone =>
        /\ \A i \in 1..Len(data) :
              /\ data[i].Net_Stock = data[i].Global_stock + data[i].Pending_PO
              /\ \A m \in {0, 7, 50} :
                    LET other == MetricsRow([data[i] EXCEPT !.Main_Store_Stock = m])
                    IN /\ other.Net_Stock = data[i].Net_Stock
                       /\ other.Reorder_Needed = data[i].Reorder_Needed
                       /\ other.Order_Qty = data[i].Order_Qty
        /\ \A i \in 1..Len(output_file.rows) :
              output_file.rows[i].Net_Stock =
                  output_file.rows[i].Global_stock + output_file.rows[i].Pending_PO

\* a finished run with a row that holds main store stock, global stock and a
\* pending order
C5_Witness ==
    /\ script = "script4"
    /\ pc = "done"
    /\ \E i \in 1..Len(data) :
          /\ data[i].Main_Store_Stock > 0
          /\ data[i].Global_stock > 0
          /\ data[i].Pending_PO > 0
          /\ data[i].Reorder_Needed

NonNegative(rows, cols) ==
    \A i \in 1..Len(rows) : \A c \in cols : rows[i][c] >= 0

\* C6: Non-negativity. In every successful run all output and derived quantity
\* fields are >= 0: Total Global Stock, Sum of Qty., and Global stock, Main
\* Store Stock, Pending PO, Net Stock, both stock-days columns and Order Qty of
\* the inventory table.
C6_NonNegativity ==
    pc = "done" =>
        CASE script = "script1" -> NonNegative(output_file.rows, {"Total_Global_Stock"})
          [] script = "script2" -> NonNegative(output_file.rows, {"Sum_of_Qty"})
          [] OTHER ->
                NonNegative(output_file.rows,
                            {"Global_stock", "Main_Store_Stock", "Pending_PO", "Net_Stock",
                             "Global_Stock_Days", "Main_Store_Stock_Days", "Order_Qty"})

\* the line of the feed counts for the row: designated store, parsable date
\* within 90 days of the run
Qualifies(line) ==
    /\ line.Store_Name = MAIN_STORE
    /\ line.POCreated_Date[1] = "date"
    /\ line.POCreated_Date[2] >= clock - 90

\* C10: Pending-PO window. After process_pending_po the Pending PO of a row is
\* the sum of Pen.Qty over exactly the lines of its item code whose Store Name
\* is the designated store and whose PO creation date parses and is >= run
\* time - 90 days; an item with no such line gets 0.
C10_PendingPOWindow ==
    PendingDone =>
        \A i \in 1..Len(data) :
           data[i].Pending_PO =
               SumInt(SelectSeq(expected_items_file.rows,
                                LAMBDA l : Qualifies(l) /\ l.Item_Code = data[i].Item_n_Code),
                      "Pen_Qty")

\* a line 95 days old is left out, a line exactly 90 days old is counted, and
\* the item without a line gets 0
C10_Witness ==
    /\ script = "script4"
    /\ pc = "done"
    /\ clock = 100
    /\ expected_items_file.rows =
          <<POLine("A1", MAIN_STORE, Date(5), 30), POLine("A1", MAIN_STORE, Date(10), 30)>>
    /\ data[1].Pending_PO = 30
    /\ data[2].Pending_PO = 0

----------------------------------------------------------------------------
(* Properties of the run as a whole *)

\* C11: a run of the calculator that ends with an error, in whatever stage
\* the error arose (the steps after the export included), has written no
\* output file.
C11_NoPartialOutput ==
    (script = "script4" /\ pc = "failed") => ~output_file.exists

\* C12: an exception raised by the reporting callback never becomes the
\* failure of the run: the pipeline goes on as with a callback that never
\* fails.
C12_ReportingSwallowed ==
    pc = "failed" => error # "ReportingError"

\* C13: create_main_store_stock_lookup fails as create_global_stock_lookup
\* does when cleaning leaves no row: such a run never completes and exports
\* nothing.
C13_AllRowsFiltered ==
    (script = "script2" /\ CleanedBatchRows = <<>>) =>
        pc # "done" /\ ~output_file.exists

\* the value a lookup table holds for an item code, 0 when it has no entry
LookupValue(rows, key, col, code) ==
    IF \E j \in 1..Len(rows) : rows[j][key] = code
    THEN rows[CHOOSE j \in 1..Len(rows) : rows[j][key] = code][col]
    ELSE 0

\* C14: Merge result. When the two lookup files list every item code once,
\* the working table after load_master, the two merges and process_pending_po
\* has exactly one row per active master row, in the master's order, none
\* dropped and none duplicated, and its Global stock, Main Store Stock and
\* Pending PO are the values of the matching lookup entries, 0 where a lookup
\* has no entry for the item.
C14_MergeResult ==
    (/\ PendingDone
     /\ is_unique(global_stock_file.rows, "Item_Code")
     /\ is_unique(main_store_file.rows, "Item_n_Code")) =>
        LET active == SelectSeq(master_file.rows, IsActive)
        IN /\ Len(data) = Len(active)
           /\ \A i \in 1..Len(data) :
                 /\ data[i].Item_n_Code = active[i].Item_n_Code
                 /\ data[i].Global_stock =
                       LookupValue(global_stock_file.rows, "Item_Code",
                                   "Total_Global_Stock", data[i].Item_n_Code)
                 /\ data[i].Main_Store_Stock =
                       LookupValue(main_store_file.rows, "Item_n_Code",
                                   "Sum_of_Qty", data[i].Item_n_Code)
                 /\ data[i].Pending_PO =
                       SumInt(SelectSeq(expected_items_file.rows,
                                        LAMBDA l : /\ Qualifies(l)
                                                   /\ l.Item_Code = data[i].Item_n_Code),
                              "Pen_Qty")

\* two active rows of the same item and lookups that hold the item in one
\* table only: the rows stay two, with the entry's value or 0
C14_Witness ==
    /\ script = "script4"
    /\ pc = "done"
    /\ Len(master_file.rows) = 2
    /\ Len(data) = 2
    /\ data[1].Item_n_Code = "A1"
    /\ data[2].Item_n_Code = "A1"
    /\ data[1].Global_stock = 50
    /\ data[2].Main_Store_Stock = 0
    /\ data[2].Pending_PO = 50

\* days is stock / adc rounded to the nearest whole number, a tie going to
\* the even neighbour
RoundedQuotient(days, stock, adc) ==
    LET twice_off == 2 * (days * adc - stock)
    IN /\ twice_off <= adc
       /\ -twice_off <= adc
       /\ (twice_off = adc \/ -twice_off = adc) => days % 2 = 0

\* C15: Stock-days guard. After calculate_metrics a row with ADC <= 0 has
\* Global Stock Days = 0 and Main Store Stock Days = 0, and the step does not
\* fail on such a row; a row with ADC > 0 has the rounded quotients
\* Global stock / ADC and Main Store Stock / ADC.
C15_StockDaysGuard ==
    /\ MetricsDone =>
          \A i \in 1..Len(data) :
             IF data[i].ADC <= 0
             THEN /\ data[i].Global_Stock_Days = 0
                  /\ data[i].Main_Store_Stock_Days = 0
             ELSE /\ RoundedQuotient(data[i].Global_Stock_Days,
                                     data[i].Global_stock, data[i].ADC)
                  /\ RoundedQuotient(data[i].Main_Store_Stock_Days,
                                     data[i].Main_Store_Stock, data[i].ADC)
    /\ (script = "script4" /\ pc = "failed" /\ log # <<>>
            /\ log[Len(log)] = <<"calculating", 0>>) => data = <<>>

\* a completed run on an item with ADC = 0 and stock in both places
C15_Witness ==
    /\ script = "script4"
    /\ pc = "done"
    /\ Len(data) = 1
    /\ data[1].ADC = 0
    /\ data[1].Global_stock = 50
    /\ data[1].Main_Store_Stock = 7
    /\ data[1].Global_Stock_Days = 0
    /\ data[1].Main_Store_Stock_Days = 0

\* rows flagged for reorder come first, and Order Qty does not increase within
\* a flag value
ReorderFirst(rows) ==
    \A i, j \in 1..Len(rows) :
       i < j =>
          /\ rows[j].Reorder_Needed => rows[i].Reorder_Needed
          /\ rows[i].Reorder_Needed = rows[j].Reorder_Needed =>
                rows[i].Order_Qty >= rows[j].Order_Qty

\* the part of C16 that is about the exported sheet
ExportedSheetSorted ==
    (script = "script4" /\ output_file.exists) => ReorderFirst(output_file.rows)

\* C16: Export ordering. Both tables a completed run of the calculator hands
\* over, the exported sheet and the table run() returns, are sorted by Reorder
\* Needed? descending, then Order Qty descending.
C16_ExportOrdering ==
    (script = "script4" /\ pc = "done") =>
        /\ ReorderFirst(output_file.rows)
        /\ ReorderFirst(run_result)

\* C17: Completion callback exactly once. on_done is never invoked twice, it
\* is invoked with None only for a task that returned and with the task's own
\* exception only for a task that raised, and a worker that has ended has
\* invoked it once.
C17_OnDoneOnce ==
    /\ Len(on_done_calls) <= 1
    /\ \A i \in 1..Len(on_done_calls) :
          IF on_done_calls[i] = "None" THEN pc = "done"
          ELSE pc = "failed" /\ on_done_calls[i] = error
    /\ worker \in {"finished", "died"} => Len(on_done_calls) = 1

====
